---- MODULE Spec2Model ----
(***************************************************************************)
(* A model of aesara.tensor.random.op: the shape inference, the node       *)
(* construction and the execution of a RandomVariable Op.                  *)
(*                                                                         *)
(* Dimensions are concrete naturals (every shape expression folds to a     *)
(* literal).  A parameter is a record [shape, bcast]: its shape and its    *)
(* static broadcastable flags, where a flagged axis has size 1.            *)
(***************************************************************************)
EXTENDS Integers, Sequences, FiniteSets, TLC

\* ------------------------------------------------------------------ bounds
MaxRank == 2        \* the largest rank of a distribution parameter
MaxParams == 2      \* the largest number of distribution parameters
MaxSizeLen == 2     \* the largest length of the size vector
MaxSupp == 2        \* the largest ndim_supp and entry of ndims_params
MaxExec == 3        \* the largest number of executions of perform in a run

DimVals == {1, 3, 4}    \* the sizes a parameter axis takes
SizeVals == {1, 2}      \* the entries the size vector takes

VARIABLES
    op,         \* the Op's props: ndim_supp, ndims_params
    dist_params,\* the distribution parameters of the node
    size,       \* the (normalised) size vector
    pc,         \* where the scenario stands
    built,      \* the trace of _infer_shape as compute_bcast called it
    bcast,      \* the value of compute_bcast
    inferred,   \* the value of infer_shape, and the trace behind it
    call,       \* make_node's other arguments: rng, dtype; and config.floatX
    node,       \* what make_node returned or raised
    seed,       \* the position of the original generator state, before any draw
    heap,       \* the generator objects: heap[h] is the position of handle h
    log,        \* the executions completed so far (the steps taken, when
                \* two executions are interleaved)
    procs       \* the two interleaved executions of perform

shapeVars == <<op, dist_params, size, pc, built, bcast, inferred>>
nodeVars == <<call, node>>
execVars == <<seed, heap, log, procs>>
vars == <<op, dist_params, size, pc, built, bcast, inferred, call, node,
          seed, heap, log, procs>>

\* ---------------------------------------------------------------- helpers
Max2(a, b) == IF a >= b THEN a ELSE b
Min2(a, b) == IF a <= b THEN a ELSE b

\* Python's s[:-n] for n > 0
DropLast(s, n) == SubSeq(s, 1, Max2(0, Len(s) - n))

\* Python's s[-n:] for n > 0
LastN(s, n) == SubSeq(s, Max2(1, Len(s) - n + 1), Len(s))

\* Python's zip: as long as the shorter of the two
ZipLen(a, b) == Min2(Len(a), Len(b))

\* the sequences over S of length at most n
SeqsUpTo(S, n) == UNION {[1..k -> S] : k \in 0..n}

\* F(v), with v evaluated once
Bind(v, F(_)) == CHOOSE r \in {F(x) : x \in {v}} : TRUE

\* a call that returned v, and a call that raised e
Ok(v) == [ok |-> TRUE, val |-> v, err |-> "none"]
Err(e) == [ok |-> FALSE, val |-> <<>>, err |-> e]

\* ---------------------------------------------- the broadcast-shape resolver
\* the sizes the shapes have at axis j of the right-aligned layout of rank r
AxisSizes(shapes, r, j) ==
    {shapes[i][j - (r - Len(shapes[i]))] :
        i \in {k \in 1..Len(shapes) : j > r - Len(shapes[k])}}

MaxRankOf(shapes) ==
    IF Len(shapes) = 0 THEN 0
    ELSE CHOOSE r \in {Len(shapes[i]) : i \in 1..Len(shapes)} :
            \A i \in 1..Len(shapes) : Len(shapes[i]) <= r

\* aesara.tensor.extra_ops.broadcast_shape_iter(shapes, arrays_are_shapes=True)
broadcast_shape_iter(shapes) ==
    Bind(shapes, LAMBDA shs :
        LET r == MaxRankOf(shs)
            nonOne(j) == AxisSizes(shs, r, j) \ {1}
        IN  IF \E j \in 1..r : Cardinality(nonOne(j)) > 1
            THEN Err("ValueError")
            ELSE Ok([j \in 1..r |->
                        IF nonOne(j) = {} THEN 1 ELSE CHOOSE v \in nonOne(j) : TRUE]))

\* aesara.tensor.random.utils.params_broadcast_shapes: every parameter's shape
\* with its independent dimensions broadcast against the other parameters'
params_broadcast_shapes(param_shapes, ndims_params) ==
    LET k == ZipLen(param_shapes, ndims_params)
        extras == [i \in 1..k |->
                     SubSeq(param_shapes[i], 1,
                            Max2(0, Len(param_shapes[i]) - ndims_params[i]))]
    IN  Bind(broadcast_shape_iter(extras), LAMBDA extra_dims :
            IF ~extra_dims.ok THEN extra_dims
            ELSE Ok([i \in 1..k |->
                        IF ndims_params[i] > 0
                        THEN extra_dims.val \o LastN(param_shapes[i], ndims_params[i])
                        ELSE extra_dims.val]))

\* aesara.tensor.shape.shape_tuple: the parameter's own shape
shape_tuple(p) == p.shape

\* ------------------------------------------------ default_shape_from_params
\* param_shapes is None when has_shapes is FALSE
default_shape_from_params(ndim_supp, params, rep_param_idx, has_shapes, param_shapes) ==
    IF ndim_supp <= 0 THEN Err("ValueError")
    ELSE IF has_shapes
    THEN IF rep_param_idx + 1 > Len(param_shapes) THEN Err("IndexError")
         ELSE LET ref_param == param_shapes[rep_param_idx + 1]
              IN  IF ndim_supp > Len(ref_param) THEN Err("IndexError")
                  ELSE Ok(<<ref_param[Len(ref_param) - ndim_supp + 1]>>)
    ELSE IF rep_param_idx + 1 > Len(params) THEN Err("IndexError")
         ELSE LET ref_param == params[rep_param_idx + 1]
              IN  IF Len(ref_param.shape) < ndim_supp THEN Err("ValueError")
                  ELSE Ok(LastN(ref_param.shape, ndim_supp))

\* RandomVariable._shape_from_params
_shape_from_params(self, params, param_shapes) ==
    default_shape_from_params(self.ndim_supp, params, 0, TRUE, param_shapes)

\* ------------------------------------------------------------ _infer_shape
\* slice_ind_dims: the independent shape of p, whose broadcast shape is ps
slice_ind_dims(p, ps, n) ==
    IF n = 0 THEN Ok(ps)
    ELSE IF Len(p.shape) < n THEN Err("IndexError")
    ELSE LET sh == DropLast(ps, n)
             bc == DropLast(p.bcast, n)
         IN  Ok([i \in 1..ZipLen(sh, bc) |-> IF ~bc[i] THEN sh[i] ELSE 1])

\* what _infer_shape returned or raised, with the parts it was built from
Trace(ok, err, shape, ind, supp) ==
    [ok |-> ok, err |-> err, shape |-> shape, ind |-> ind, supp |-> supp]

Raised(e) == Trace(FALSE, e, <<>>, <<>>, <<>>)

\* a mutant of size_determines_shape: the shortcut misses a size of length 1
size_determines_shape_gt1(self, size_len) ==
    self.ndim_supp = 0 /\ size_len > 1

\* the test of the size-only shortcut
size_determines_shape(self, size_len) ==
    self.ndim_supp = 0 /\ size_len > 0

\* the second half of _infer_shape: from the broadcast parameter shapes on
infer_from_broadcast(self, sz, params, param_shapes) ==
    LET k == Min2(Len(params), Min2(Len(param_shapes), Len(self.ndims_params)))
    IN  Bind([i \in 1..k |->
                 slice_ind_dims(params[i], param_shapes[i], self.ndims_params[i])],
             LAMBDA params_ind_slice :
        IF \E i \in 1..k : ~params_ind_slice[i].ok
        THEN Raised("IndexError")
        ELSE
        Bind(IF k = 1 THEN Ok(params_ind_slice[1].val)
             ELSE IF k > 1
             THEN broadcast_shape_iter([i \in 1..k |-> params_ind_slice[i].val])
             ELSE Ok(<<>>),
             LAMBDA ind :
        IF ~ind.ok THEN Raised(ind.err)
        ELSE
        LET shape_ind == ind.val
            ndim_ind == Len(shape_ind)
            shape_reps == IF self.ndim_supp = 0 /\ ndim_ind > 0
                          THEN DropLast(sz, ndim_ind)
                          ELSE sz
        IN  Bind(IF self.ndim_supp = 0 THEN Ok(<<>>)
                 ELSE _shape_from_params(self, params, param_shapes),
                 LAMBDA supp :
            IF ~supp.ok THEN Raised(supp.err)
            ELSE Trace(TRUE, "none", shape_reps \o shape_ind \o supp.val,
                       shape_ind, supp.val))))

_infer_shape(self, sz, params, has_param_shapes, given_shapes) ==
    LET size_len == Len(sz)
    IN  IF size_determines_shape(self, size_len)
        THEN Trace(TRUE, "none", sz, <<>>, <<>>)
        ELSE
        LET own == IF has_param_shapes /\ Len(given_shapes) > 0
                   THEN given_shapes
                   ELSE [i \in 1..Len(params) |-> shape_tuple(params[i])]
        IN  Bind(params_broadcast_shapes(own, self.ndims_params), LAMBDA bshapes :
                IF ~bshapes.ok THEN Raised(bshapes.err)
                ELSE infer_from_broadcast(self, sz, params, bshapes.val))

\* RandomVariable.compute_bcast: the trace, and the flags read off the shape
compute_bcast(self, params, sz) ==
    Bind(_infer_shape(self, sz, params, FALSE, <<>>), LAMBDA t :
        [trace |-> t,
         flags |-> IF t.ok THEN [i \in 1..Len(t.shape) |-> t.shape[i] = 1]
                   ELSE <<>>])

\* RandomVariable.infer_shape: input_shapes holds the parameters' shapes
infer_shape(self, sz, params, input_shapes) ==
    _infer_shape(self, sz, params, TRUE, input_shapes)

\* ------------------------------------------------------------------ dtypes
\* a dtype argument is None, a string or an integer
DNone == [kind |-> "none", name |-> "", idx |-> 0]
DStr(s) == [kind |-> "str", name |-> s, idx |-> 0]
DInt(i) == [kind |-> "int", name |-> "", idx |-> i]

\* Python's truth value of a dtype argument
Truthy(d) ==
    \/ d.kind = "str" /\ d.name # ""
    \/ d.kind = "int" /\ d.idx # 0

\* Python's a or b
PyOr(a, b) == IF Truthy(a) THEN a ELSE b

\* aesara.tensor.type.all_dtypes: the ordered catalogue of dtype names
all_dtypes == <<"int64", "uint8", "float32", "float64">>

InCatalogue(s) == \E i \in 1..Len(all_dtypes) : all_dtypes[i] = s

\* all_dtypes.index(s), counted from 0
IndexOf(s) == (CHOOSE i \in 1..Len(all_dtypes) : all_dtypes[i] = s) - 1

\* Python's seq[i] on a list: a negative i counts from the end
PyIndexOk(seq, i) == -Len(seq) <= i /\ i < Len(seq)
PyIndex(seq, i) == IF i >= 0 THEN seq[i + 1] ELSE seq[Len(seq) + i + 1]

\* ---------------------------------------------------------------- __init__
\* an optional boolean argument: None, or a value
BNone == [set |-> FALSE, val |-> FALSE]
BVal(b) == [set |-> TRUE, val |-> b]

\* the attributes a subclass declares at class level; dtype is DNone and
\* inplace is BNone where the class declares none
NoClassAttrs == [dtype |-> DNone, inplace |-> BNone]

\* RandomVariable.__init__
RV_init(ndim_supp, ndims_params, dtype, inplace, cls) ==
    LET inpl == IF inplace.set THEN inplace.val
                ELSE IF cls.inplace.set THEN cls.inplace.val ELSE FALSE
    IN  [ndim_supp |-> ndim_supp,
         ndims_params |-> ndims_params,
         dtype |-> PyOr(dtype, cls.dtype),
         inplace |-> inpl,
         destroy_map |-> IF inpl THEN {<<0, 0>>} ELSE {}]

\* --------------------------------------------------------------- make_node
NodeErr(e) ==
    [ok |-> FALSE, err |-> e, dtype |-> "", dtype_idx |-> 0, bcast |-> <<>>,
     fresh_rng |-> FALSE]

\* a mutant of resolve_dtype: the caller's dtype comes first
resolve_dtype_caller_first(self, dtype) == PyOr(dtype, self.dtype)

\* dtype = self.dtype or dtype
resolve_dtype(self, dtype) == PyOr(self.dtype, dtype)

\* rng is "none" (None), "random" (a variable of a RandomType) or "other"
make_node(self, rng, sz, dtype, params, floatX) ==
    IF rng = "other" THEN NodeErr("TypeError: rng type")
    ELSE
    LET b == compute_bcast(self, params, sz)
        d0 == resolve_dtype(self, dtype)
        d1 == IF d0 = DStr("floatX") THEN DStr(floatX) ELSE d0
    IN  IF ~b.trace.ok THEN NodeErr(b.trace.err)
        ELSE IF d0 # DStr("floatX") /\
                (d0.kind = "none" \/ (d0.kind = "str" /\ ~InCatalogue(d0.name)))
        THEN NodeErr("TypeError: dtype is unspecified")
        ELSE IF d1.kind = "str"
        THEN [ok |-> TRUE, err |-> "none", dtype |-> d1.name,
              dtype_idx |-> IndexOf(d1.name), bcast |-> b.flags,
              fresh_rng |-> (rng = "none")]
        ELSE IF ~PyIndexOk(all_dtypes, d1.idx)
        THEN NodeErr("IndexError: list index out of range")
        ELSE [ok |-> TRUE, err |-> "none", dtype |-> PyIndex(all_dtypes, d1.idx),
              dtype_idx |-> d1.idx, bcast |-> b.flags,
              fresh_rng |-> (rng = "none")]

\* ------------------------------------------------------------- the inputs
ParamSet ==
    {p \in [shape : SeqsUpTo(DimVals, MaxRank), bcast : SeqsUpTo(BOOLEAN, MaxRank)] :
        /\ Len(p.shape) = Len(p.bcast)
        /\ \A i \in 1..Len(p.shape) : p.bcast[i] => p.shape[i] = 1}

NoTrace == Raised("not called")
NoCall == [rng |-> "none", dtype |-> DNone, floatX |-> "float64"]
NoNode == NodeErr("not called")
NoExec == seed = 0 /\ heap = <<>> /\ log = <<>> /\ procs = <<>>

\* the dtypes a descriptor declares, and those a caller passes
DeclaredDtypes == {DNone, DStr("floatX"), DStr("int64"), DStr("bogus")}
ClassDtypes == {DNone, DStr("float32")}
CallerDtypes ==
    {DNone, DStr("floatX"), DStr("float64"), DStr("uint8"), DStr("bogus")}
        \cup {DInt(i) : i \in (-Len(all_dtypes) - 1)..Len(all_dtypes)}

\* ----------------------------------------------- shape inference scenario
ShapeInit ==
    /\ \E n \in 0..MaxParams :
         /\ dist_params \in [1..n -> ParamSet]
         /\ \E s \in 0..MaxSupp, r \in [1..n -> 0..MaxSupp] :
                op = RV_init(s, r, DNone, BNone, NoClassAttrs)
    /\ size \in SeqsUpTo(SizeVals, MaxSizeLen)
    /\ pc = "ready"
    /\ built = NoTrace
    /\ bcast = <<>>
    /\ inferred = NoTrace
    /\ call = NoCall
    /\ node = NoNode
    /\ NoExec

\* construction computes the static broadcast flags of the output
ComputeBcast ==
    /\ pc = "ready"
    /\ \E r \in {compute_bcast(op, dist_params, size)} :
           /\ built' = r.trace
           /\ bcast' = r.flags
           /\ pc' = IF r.trace.ok THEN "built" ELSE "failed"
    /\ UNCHANGED <<op, dist_params, size, inferred, nodeVars, execVars>>

\* the engine asks the node for its output shape, given the inputs' shapes
InferShape ==
    /\ pc = "built"
    /\ inferred' = infer_shape(op, size, dist_params,
                               [i \in 1..Len(dist_params) |-> dist_params[i].shape])
    /\ pc' = "inferred"
    /\ UNCHANGED <<op, dist_params, size, built, bcast, nodeVars, execVars>>

Init == ShapeInit
Next == ComputeBcast \/ InferShape
Spec == Init /\ [][Next]_vars

\* --------------------------------------------- node construction scenario
\* a parameter of the given shape: no axis flagged, and every axis of size 1
\* flagged
Tensor(shape) == [shape |-> shape, bcast |-> [i \in 1..Len(shape) |-> FALSE]]
Literal(shape) == [shape |-> shape, bcast |-> [i \in 1..Len(shape) |-> shape[i] = 1]]

\* the Ops and inputs nodes are constructed from: ndim_supp, ndims_params,
\* the parameters and the size
NodeCases ==
    { [s |-> 0, r |-> <<>>, params |-> <<>>, size |-> <<>>],
      [s |-> 0, r |-> <<0>>, params |-> <<Literal(<<1>>)>>, size |-> <<>>],
      [s |-> 0, r |-> <<0, 0>>, params |-> <<Tensor(<<3>>), Tensor(<<3>>)>>,
       size |-> <<2>>],
      [s |-> 0, r |-> <<0, 0>>, params |-> <<Tensor(<<3>>), Tensor(<<4>>)>>,
       size |-> <<>>],
      [s |-> 1, r |-> <<1>>, params |-> <<Tensor(<<4>>)>>, size |-> <<2>>],
      [s |-> 1, r |-> <<1>>, params |-> <<Tensor(<<>>)>>, size |-> <<>>] }

NodeInit ==
    /\ \E c \in NodeCases, d \in DeclaredDtypes, k \in ClassDtypes :
         /\ op = RV_init(c.s, c.r, d, BNone, [dtype |-> k, inplace |-> BNone])
         /\ dist_params = c.params
         /\ size = c.size
    /\ call \in [rng : {"none", "random", "other"}, dtype : CallerDtypes,
                 floatX : {"float32", "float64"}]
    /\ pc = "ready"
    /\ built = NoTrace
    /\ bcast = <<>>
    /\ inferred = NoTrace
    /\ node = NoNode
    /\ NoExec

\* make_node builds the Apply node, or raises
MakeNode ==
    /\ pc = "ready"
    /\ node' = make_node(op, call.rng, size, call.dtype, dist_params, call.floatX)
    /\ pc' = IF node'.ok THEN "made" ELSE "failed"
    /\ UNCHANGED <<op, dist_params, size, built, bcast, inferred, call, execVars>>

\* the node is rebuilt from its own inputs, the dtype now given by its index
RebuildNode ==
    /\ pc = "made"
    /\ node' = make_node(op, "random", size, DInt(node.dtype_idx), dist_params,
                         call.floatX)
    /\ pc' = IF node'.ok THEN "remade" ELSE "refailed"
    /\ UNCHANGED <<op, dist_params, size, built, bcast, inferred, call, execVars>>

NodeNext == MakeNode \/ RebuildNode
SpecNode == NodeInit /\ [][NodeNext]_vars

\* ----------------------------------------------------------------- perform
SeedVals == {0, 3}      \* the positions the original generator state starts at

RECURSIVE Prod(_)
Prod(sz) == IF Len(sz) = 0 THEN 1 ELSE Head(sz) * Prod(Tail(sz))

\* a deterministic stub of a sampling kernel: variate q of the stream is
\* (3q + 1) / 2, and a value is kept as the number of its halves
Variate(q) == 3 * q + 1

\* RandomVariable.rng_fn on a state at position pos: a scalar when size is
\* None, otherwise an array of Prod(size) variates; the state moves past them
rng_fn(pos, size_is_none, sz) ==
    LET n == IF size_is_none THEN 1 ELSE Prod(sz)
    IN  [val |-> [k \in 1..n |-> Variate(pos + k - 1)],
         is_ndarray |-> ~size_is_none,
         dtype |-> "float64",
         pos |-> pos + n]

\* a value in halves, cast to dtype: an integer dtype drops the fraction
Cast(v, dtype) == IF dtype \in {"int64", "uint8"} THEN 2 * (v \div 2) ELSE v

\* aesara.misc.safe_asarray._asarray
_asarray(val, dtype) ==
    [data |-> [k \in 1..Len(val) |-> Cast(val[k], dtype)], dtype |-> dtype]

\* the sample perform stores, from what the kernel returned
coerce(k, out_dtype) ==
    IF ~k.is_ndarray \/ k.dtype # out_dtype
    THEN _asarray(k.val, out_dtype)
    ELSE [data |-> k.val, dtype |-> k.dtype]

\* a mutant of copies_state: the policy is read the wrong way round
copies_state_inverted(self) == self.inplace

\* a mutant of copies_state: the state is never copied
copies_state_never(self) == FALSE

\* whether perform draws from a copy of rng
copies_state(self) == ~self.inplace

\* a mutant of copy: the new state is freshly seeded, not a duplicate
copy_fresh_state(hp, rng) == Append(hp, 0)

\* copy(rng): the heap with a duplicate of rng appended
copy(hp, rng) == Append(hp, hp[rng])

\* a mutant of perform: the kernel draws on a scratch copy of the state and
\* the state that is published is never advanced
perform_draw_on_scratch(self, hp, rng_in, sz, out_dtype) ==
    LET size_is_none == Len(sz) = 0
        hp1 == IF copies_state(self) THEN copy(hp, rng_in) ELSE hp
        rng == IF copies_state(self) THEN Len(hp1) ELSE rng_in
        k == rng_fn(hp1[rng], size_is_none, sz)
        hp2 == Append(hp1, k.pos)
    IN  [heap |-> hp2, rng_var_out |-> rng, smpl_out |-> coerce(k, out_dtype)]

\* RandomVariable.perform on the heap hp: the heap afterwards and the two
\* outputs
perform(self, hp, rng_in, sz, out_dtype) ==
    LET size_is_none == Len(sz) = 0
        hp1 == IF copies_state(self) THEN copy(hp, rng_in) ELSE hp
        rng == IF copies_state(self) THEN Len(hp1) ELSE rng_in
        k == rng_fn(hp1[rng], size_is_none, sz)
        hp2 == [hp1 EXCEPT ![rng] = k.pos]
    IN  [heap |-> hp2, rng_var_out |-> rng, smpl_out |-> coerce(k, out_dtype)]

\* -------------------------------------------- sequential execution scenario
ExecSizes == {<<>>, <<1>>, <<2>>}
ExecDtypes == {"float64", "int64"}
InplaceArgs == {BNone, BVal(TRUE), BVal(FALSE)}

NoShape ==
    /\ dist_params = <<>> /\ size = <<>> /\ pc = "ready"
    /\ built = NoTrace /\ bcast = <<>> /\ inferred = NoTrace
    /\ call = NoCall /\ node = NoNode

ExecInit ==
    /\ \E a \in InplaceArgs, c \in {BNone, BVal(TRUE)} :
          op = RV_init(0, <<>>, DNone, a, [dtype |-> DNone, inplace |-> c])
    /\ seed \in SeedVals
    /\ heap = <<seed>>
    /\ log = <<>>
    /\ procs = <<>>
    /\ NoShape

\* one execution of a node of the Op: rng is any state that exists, the
\* original one or the state output of an earlier execution
Perform ==
    /\ Len(log) < MaxExec
    /\ \E rng \in 1..Len(heap), sz \in ExecSizes, dt \in ExecDtypes :
         LET r == perform(op, heap, rng, sz, dt)
         IN  /\ heap' = r.heap
             /\ log' = Append(log,
                    [inh |-> rng, outh |-> r.rng_var_out, size |-> sz,
                     dtype |-> dt, sample |-> r.smpl_out,
                     pre |-> heap[rng],
                     post_in |-> r.heap[rng],
                     post_out |-> r.heap[r.rng_var_out]])
    /\ UNCHANGED <<op, shapeVars, nodeVars, seed, procs>>

ExecNext == Perform
SpecExec == ExecInit /\ [][ExecNext]_vars

\* ------------------------------------------- interleaved execution scenario
Procs == {1, 2}

\* the locals of an execution that has not drawn yet
NoDraw == rng_fn(0, TRUE, <<>>)
NoSample == _asarray(<<>>, "none")

ConcInit ==
    /\ \E a \in InplaceArgs, c \in {BNone, BVal(TRUE)} :
          op = RV_init(0, <<>>, DNone, a, [dtype |-> DNone, inplace |-> c])
    /\ seed \in SeedVals
    /\ heap = <<seed>>
    /\ log = <<>>
    /\ \E s \in [Procs -> ExecSizes], d \in [Procs -> ExecDtypes] :
          procs = [p \in Procs |->
                     [at |-> "start", size |-> s[p], dtype |-> d[p], rng |-> 1,
                      rng_var_out |-> 0, smpl_val |-> NoDraw,
                      smpl_out |-> NoSample]]
    /\ NoShape

\* if not self.inplace: rng = copy(rng)
ResolveRng(p) ==
    /\ procs[p].at = "start"
    /\ IF copies_state(op)
       THEN /\ heap' = copy(heap, procs[p].rng)
            /\ procs' = [procs EXCEPT ![p].rng = Len(heap'), ![p].at = "resolved"]
       ELSE /\ heap' = heap
            /\ procs' = [procs EXCEPT ![p].at = "resolved"]
    /\ log' = Append(log, p)
    /\ UNCHANGED <<op, shapeVars, nodeVars, seed>>

\* rng_var_out[0] = rng
PublishState(p) ==
    /\ procs[p].at = "resolved"
    /\ procs' = [procs EXCEPT ![p].rng_var_out = procs[p].rng,
                              ![p].at = "published"]
    /\ log' = Append(log, p)
    /\ UNCHANGED <<op, shapeVars, nodeVars, seed, heap>>

\* smpl_val = self.rng_fn(rng, *(args + [size]))
CallKernel(p) ==
    /\ procs[p].at = "published"
    /\ LET k == rng_fn(heap[procs[p].rng], Len(procs[p].size) = 0, procs[p].size)
       IN  /\ heap' = [heap EXCEPT ![procs[p].rng] = k.pos]
           /\ procs' = [procs EXCEPT ![p].smpl_val = k, ![p].at = "drawn"]
    /\ log' = Append(log, p)
    /\ UNCHANGED <<op, shapeVars, nodeVars, seed>>

\* smpl_out[0] = smpl_val, coerced to the output's dtype
PublishSample(p) ==
    /\ procs[p].at = "drawn"
    /\ procs' = [procs EXCEPT
                    ![p].smpl_out = coerce(procs[p].smpl_val, procs[p].dtype),
                    ![p].at = "done"]
    /\ log' = Append(log, p)
    /\ UNCHANGED <<op, shapeVars, nodeVars, seed, heap>>

ConcNext ==
    \E p \in Procs :
        ResolveRng(p) \/ PublishState(p) \/ CallKernel(p) \/ PublishSample(p)

SpecConc == ConcInit /\ [][ConcNext]_vars

\* ------------------------------------------------- claims on the shape rules
\* the independent shape of a parameter: its shape without the trailing n axes
IndShape(p, n) == SubSeq(p.shape, 1, Max2(0, Len(p.shape) - n))

IndShapes == [i \in 1..Len(dist_params) |->
                IndShape(dist_params[i], op.ndims_params[i])]

Constructed == pc \in {"built", "failed", "inferred"}

\* C3: for a scalar distribution (ndim_supp = 0) and a non-empty size, the
\* shape _infer_shape returns is size itself whatever the parameters are: no
\* error is raised, compute_bcast's flags are those of size, and infer_shape
\* returns size too.
C3_SizeIsShape ==
    (Constructed /\ op.ndim_supp = 0 /\ Len(size) > 0) =>
        /\ pc # "failed"
        /\ built.ok /\ built.shape = size
        /\ bcast = [i \in 1..Len(size) |-> size[i] = 1]
        /\ (pc = "inferred" => inferred.ok /\ inferred.shape = size)

\* C3 witness: two parameters that do not broadcast, (3,) and (4,), and the
\* size (2, 1): the inferred shape is (2, 1)
C3_Witness ==
    /\ pc = "inferred" /\ op.ndim_supp = 0 /\ size = <<2, 1>>
    /\ Len(dist_params) = 2
    /\ dist_params[1].shape = <<3>> /\ dist_params[2].shape = <<4>>
    /\ inferred.shape = <<2, 1>> /\ bcast = <<FALSE, TRUE>>

\* C4: for ndim_supp > 0 under the default support-shape rule, the inferred
\* shape is size ++ (broadcast of the independent shapes) ++ (the trailing
\* ndim_supp dimensions of the first parameter), for every ndim_supp >= 1, at
\* construction and when the engine calls infer_shape.
C4_Claim ==
    (/\ Constructed /\ op.ndim_supp > 0 /\ Len(dist_params) > 0
     /\ \A i \in 1..Len(dist_params) :
            Len(dist_params[i].shape) >= op.ndims_params[i]
     /\ Len(dist_params[1].shape) >= op.ndim_supp
     /\ broadcast_shape_iter(IndShapes).ok) =>
        LET want == size \o broadcast_shape_iter(IndShapes).val
                         \o LastN(dist_params[1].shape, op.ndim_supp)
        IN  /\ built.ok /\ built.shape = want
            /\ Len(built.shape) =
                 Len(size) + Len(broadcast_shape_iter(IndShapes).val) + op.ndim_supp
            /\ (pc = "inferred" => inferred.ok /\ inferred.shape = want)

\* C7: for ndim_supp > 0 under the default support-shape rule, construction
\* fails whenever the reference (first) parameter has fewer than ndim_supp
\* dimensions.
C7_Claim ==
    (/\ Constructed /\ op.ndim_supp > 0 /\ Len(dist_params) > 0
     /\ Len(dist_params[1].shape) < op.ndim_supp) =>
        pc = "failed" /\ ~built.ok

\* C8: without the size-only shortcut and with two or more parameters, the
\* independent part of the output shape is the NumPy broadcast of the
\* parameters' independent shapes, and shapes that do not broadcast fail with
\* a shape error.
C8_Claim ==
    (/\ Constructed /\ Len(dist_params) >= 2
     /\ ~(op.ndim_supp = 0 /\ Len(size) > 0)
     /\ \A i \in 1..Len(dist_params) :
            Len(dist_params[i].shape) >= op.ndims_params[i]) =>
        LET want == broadcast_shape_iter(IndShapes)
        IN  IF want.ok
            THEN /\ built.err # "ValueError"
                 /\ (built.ok => built.ind = want.val)
            ELSE ~built.ok /\ built.err = "ValueError"

\* --------------------------------------------- claims on node construction
\* make_node failed before it came to the dtype: the rng or the shape
FailedEarlier == node.err \in {"TypeError: rng type", "ValueError", "IndexError"}

\* C5: in make_node the dtype the Op declares, when set, wins over the dtype
\* the caller passes; "floatX" resolves to config.floatX; and with no dtype
\* from the Op or from the caller make_node raises the dtype error and
\* returns no node (the rng and the shapes being such that make_node comes
\* to resolve the dtype at all; otherwise it has failed already).
C5_DtypePrecedence ==
    (pc \in {"made", "failed"}) =>
        /\ FailedEarlier => ~node.ok
        /\ ~FailedEarlier =>
            /\ op.dtype = DStr("floatX") =>
                 /\ node.ok /\ node.dtype = call.floatX
                 /\ node.dtype_idx = IndexOf(call.floatX)
            /\ (op.dtype.kind = "str" /\ InCatalogue(op.dtype.name)) =>
                 /\ node.ok /\ node.dtype = op.dtype.name
                 /\ node.dtype_idx = IndexOf(op.dtype.name)
            /\ (op.dtype.kind = "str" /\ op.dtype.name = "bogus") =>
                 ~node.ok /\ node.err = "TypeError: dtype is unspecified"
            /\ (op.dtype = DNone /\ call.dtype = DStr("floatX")) =>
                 node.ok /\ node.dtype = call.floatX
            /\ (op.dtype = DNone /\ call.dtype = DNone) =>
                 ~node.ok /\ node.err = "TypeError: dtype is unspecified"

\* C5 witness: the Op declares "floatX", the caller asks for "uint8" and
\* config.floatX is "float32": the node's dtype is "float32"
C5_Witness ==
    /\ pc = "made" /\ op.dtype = DStr("floatX") /\ call.dtype = DStr("uint8")
    /\ call.floatX = "float32" /\ node.ok /\ node.dtype = "float32"

\* C6: a dtype given by its index i in the catalogue and the dtype given by
\* the name at position i build the same node, and a name or an index that
\* designates no catalogue entry (out of range, or negative) builds no node.
C6_Claim ==
    (pc \in {"made", "failed"} /\ op.dtype = DNone /\ ~FailedEarlier) =>
        /\ (call.dtype.kind = "int" /\ call.dtype.idx \in 0..(Len(all_dtypes) - 1)) =>
             node = make_node(op, call.rng, size,
                              DStr(all_dtypes[call.dtype.idx + 1]), dist_params,
                              call.floatX)
        /\ (call.dtype.kind = "int" /\ call.dtype.idx \notin 0..(Len(all_dtypes) - 1)) =>
             ~node.ok
        /\ (call.dtype.kind = "str" /\ call.dtype.name = "bogus") => ~node.ok

\* ---------------------------------------------------- claims on execution
\* the sample an execution yields when the kernel is called on a state at
\* position pos
KernelSample(pos, sz, dt) == coerce(rng_fn(pos, Len(sz) = 0, sz), dt)

\* the position the kernel leaves a state at that it found at pos
KernelNext(pos, sz) == rng_fn(pos, Len(sz) = 0, sz).pos

\* C1: under the copy policy every execution fed the original state yields
\* the kernel's first-call output on that state, the original state keeps
\* its position, and the state each execution emits is the one advanced.
C1_CopyLeavesOriginal ==
    ~op.inplace =>
        /\ heap[1] = seed
        /\ \A i \in 1..Len(log) :
             log[i].inh = 1 =>
                /\ log[i].sample = KernelSample(seed, log[i].size, log[i].dtype)
                /\ log[i].post_in = seed
                /\ log[i].outh # 1
                /\ heap[log[i].outh] = KernelNext(seed, log[i].size)

\* C1 witness: two executions fed the original state, with equal samples
C1_Witness ==
    /\ ~op.inplace /\ Len(log) >= 2
    /\ log[1].inh = 1 /\ log[2].inh = 1
    /\ log[1].size = <<2>> /\ log[2].size = <<2>>
    /\ log[1].dtype = log[2].dtype
    /\ log[1].sample = log[2].sample
    /\ heap[1] = seed

\* each execution's state input is the state output of the one before
IsChain ==
    /\ Len(log) > 0 => log[1].inh = 1
    /\ \A i \in 2..Len(log) : log[i].inh = log[i - 1].outh

\* the position of one state after the first n calls of the log were made on
\* it one after the other
RECURSIVE SequentialPos(_)
SequentialPos(n) ==
    IF n = 0 THEN seed ELSE KernelNext(SequentialPos(n - 1), log[n].size)

\* C2: under the in-place policy a chain of n executions, each fed the state
\* output of the one before, yields the samples and the final position of n
\* calls of the kernel made one after the other on one state.
C2_ChainIsSequential ==
    (op.inplace /\ IsChain) =>
        /\ \A i \in 1..Len(log) :
             log[i].sample =
                KernelSample(SequentialPos(i - 1), log[i].size, log[i].dtype)
        /\ Len(log) > 0 => heap[log[Len(log)].outh] = SequentialPos(Len(log))

\* C2 witness: a chain of three executions in place
C2_Witness ==
    /\ op.inplace /\ IsChain /\ Len(log) >= 3
    /\ log[1].size = <<2>> /\ log[2].size = <<>> /\ log[3].size = <<1>>
    /\ log[3].sample = KernelSample(seed + 3, <<1>>, log[3].dtype)

\* C10: the first output of an execution is the state the kernel advanced and
\* holds the position after the draw: in place it is the state input itself,
\* so that a further execution fed that state yields the kernel's next
\* output; under the copy policy it is another object than the state input.
C10_OutputIsAdvancedState ==
    \A i \in 1..Len(log) :
        /\ log[i].post_out = KernelNext(log[i].pre, log[i].size)
        /\ op.inplace =>
             /\ log[i].outh = log[i].inh
             /\ log[i].post_in = KernelNext(log[i].pre, log[i].size)
             /\ (i < Len(log) /\ log[i + 1].inh = log[i].inh) =>
                   /\ log[i + 1].pre = log[i].post_out
                   /\ log[i + 1].sample =
                        KernelSample(log[i].post_out, log[i + 1].size,
                                     log[i + 1].dtype)
        /\ ~op.inplace =>
             /\ log[i].outh # log[i].inh
             /\ log[i].post_in = log[i].pre

\* C10 witness: in place, two executions fed the same state, the second
\* yielding the kernel's second output
C10_Witness ==
    /\ op.inplace /\ Len(log) >= 2
    /\ log[1].inh = 1 /\ log[2].inh = 1 /\ log[1].outh = 1
    /\ log[1].size = <<>> /\ log[2].size = <<>>
    /\ log[1].dtype = "float64" /\ log[2].dtype = "float64"
    /\ log[1].sample.data = <<Variate(seed)>>
    /\ log[2].sample.data = <<Variate(seed + 1)>>

\* C9: under the copy policy two interleaved executions fed the same state
\* do not race: whatever the order of their steps, each one's sample and
\* state output are those of an execution running alone on the original
\* state, and the shared state is never advanced.
C9_CopyDoesNotRace ==
    ~op.inplace =>
        /\ heap[1] = seed
        /\ \A p \in DOMAIN procs :
             /\ procs[p].at = "done" =>
                  /\ procs[p].smpl_out =
                        KernelSample(seed, procs[p].size, procs[p].dtype)
                  /\ procs[p].rng_var_out # 1
                  /\ heap[procs[p].rng_var_out] = KernelNext(seed, procs[p].size)
             /\ procs[p].at \in {"resolved", "published"} =>
                  heap[procs[p].rng] = seed

\* C9 witness: both executions are done, their steps having alternated
C9_Witness ==
    /\ ~op.inplace /\ Len(log) = 8
    /\ \A i \in 1..8 : log[i] = IF i % 2 = 1 THEN 1 ELSE 2
    /\ \A p \in Procs : procs[p].at = "done" /\ procs[p].size = <<2>>
    /\ procs[1].smpl_out.data = procs[2].smpl_out.data

====
